---------------------------- MODULE Spec2Model ----------------------------
(***************************************************************************)
(* A model of three parts of the Auth.js / NextAuth.js repository:         *)
(*   - packages/core/src/jwt.ts: encode, decode, getToken;                 *)
(*   - the SvelteKit client (signIn, signOut);                             *)
(*   - the MikroORM adapter.                                               *)
(*                                                                         *)
(* Strings are sequences of fragments.  A fragment is a record: Txt(s) is  *)
(* the run of text s (a single character, or a word no operation of the    *)
(* code looks inside), and a JWE fragment is the compact serialization of  *)
(* an encrypted JWT, which holds no " " and no "%".                        *)
(***************************************************************************)
EXTENDS Integers, Sequences, FiniteSets, TLC

VARIABLES
    nowMs,      \* Date.now(): the wall clock, in milliseconds
    issued,     \* the last call of encode and the JWT it returned
    decoded,    \* the last call of decode and its outcome
    env,        \* process.env
    tokCall,    \* the parameters of the call of getToken
    tokRes,     \* what that call computed: its locals and its outcome
    clientCall, \* the client function called (signIn, signOut), its arguments
    pc,         \* where that call stands
    requests,   \* the requests the client has sent, in order
    csrfRes,    \* the JSON body of the CSRF response, once received
    href,       \* window.location.href
    reloaded,   \* whether window.location.reload() was called
    clientOut,  \* the outcome of the client call, once it has ended
    db,         \* the adapter's database: users, accounts and sessions
    adapterOp,  \* the last adapter method that came back: its data, the
                \* database before its last step, its outcome
    inFlight    \* the call of getUserByAccount that awaits its second
                \* query, if any: its argument and the account it found

jwtVars == <<nowMs, issued, decoded>>
tokVars == <<env, tokCall, tokRes>>
clientVars == <<clientCall, pc, requests, csrfRes, href, reloaded, clientOut>>
adapterVars == <<db, adapterOp, inFlight>>
vars == <<nowMs, issued, decoded, env, tokCall, tokRes,
          clientCall, pc, requests, csrfRes, href, reloaded, clientOut,
          db, adapterOp, inFlight>>

---------------------------------------------------------------------------
(* JavaScript values *)

\* A run of text as one fragment of a string.
Txt(s) == [txt |-> s]

\* A function's outcome: a returned value or a thrown error.
Return(v) == [kind |-> "return", value |-> v]
Throw(e) == [kind |-> "throw", error |-> e]

\* JavaScript null, as a returned value.
Null == [null |-> TRUE]

\* An optional value: <<>> when undefined, <<v>> when v.
Opt(obj, k) == IF k \in DOMAIN obj THEN <<obj[k]>> ELSE <<>>

\* a ?? b, and the default of a destructured parameter.
OrElse(a, b) == IF a # <<>> THEN a ELSE b

\* obj.k with a default, as in the destructuring `const { k = dflt } = obj`.
Default(obj, k, dflt) == IF k \in DOMAIN obj THEN obj[k] ELSE dflt

\* { ...obj, k: v }
With(obj, k, v) == [x \in DOMAIN obj \cup {k} |-> IF x = k THEN v ELSE obj[x]]

---------------------------------------------------------------------------
(* Bounds of the model *)

\* The clock runs from 0 to MaxClockSec seconds.
MaxClockSec == 20
\* encode is called in the first IssueWindowSec seconds.
IssueWindowSec == 1
\* Claim values of the payloads range over 1..MaxClaimValue.
MaxClaimValue == 2

\* The clock advances by half a second or by a jump past the clock tolerance.
ClockSteps == {500, 16000}
\* Milliseconds that pass between the two clock reads of one encode call.
ReadGaps == {0, 500}

Secrets == {"s1", "s2"}

\* The names of the claims a payload may hold.
ClaimNames == {"sub", "exp"}
Payloads ==
    UNION {[names -> 1..MaxClaimValue] : names \in (SUBSET ClaimNames) \ {{}}}
\* crypto.randomUUID()
UUIDs == {7}
\* maxAge values a caller passes, in seconds.
MaxAges == {1, 3}

---------------------------------------------------------------------------
(* packages/core/src/jwt.ts *)

DEFAULT_MAX_AGE == 30 * 24 * 60 * 60

ClockTolerance == 15

\* (Date.now() / 1000) | 0, for a clock below 2^31 seconds.
now(ms) == ms \div 1000

\* jose's epoch(date): Math.floor(date.getTime() / 1000).
epoch(ms) == ms \div 1000

getDerivedEncryptionKeyFixed(secret) ==
    [hash |-> "sha256", ikm |-> "", salt |-> "",
     info |-> "Auth.js Generated Encryption Key", keylen |-> 32]

\* hkdf("sha256", secret, "", "Auth.js Generated Encryption Key", 32): the
\* derived key is a function of the secret alone, and two secrets derive
\* two keys.
getDerivedEncryptionKey(secret) ==
    [hash |-> "sha256", ikm |-> secret, salt |-> "",
     info |-> "Auth.js Generated Encryption Key", keylen |-> 32]

\* new EncryptJWT(payload).setProtectedHeader(..).encrypt(key): the compact
\* JWE, a string of one fragment.
EncryptJWT(payload, key) ==
    <<[header |-> [alg |-> "dir", enc |-> "A256GCM"],
       key |-> key, payload |-> payload]>>

IsJWE(token) == Len(token) = 1 /\ "key" \in DOMAIN token[1]

encodeIgnoresMaxAge(params, t1, t2, uuid) ==
    LET token == Default(params, "token", <<>>)
        maxAge == Default(params, "maxAge", DEFAULT_MAX_AGE)
        encryptionSecret == getDerivedEncryptionKey(params.secret)
    IN  EncryptJWT(
            With(With(With(token, "exp", now(t2) + DEFAULT_MAX_AGE),
                      "iat", epoch(t1)), "jti", uuid),
            encryptionSecret)

\* encode(params): t1 is the clock when setIssuedAt() reads it, t2 the clock
\* when now() reads it for setExpirationTime, uuid what randomUUID returns.
encode(params, t1, t2, uuid) ==
    LET token == Default(params, "token", <<>>)
        maxAge == Default(params, "maxAge", DEFAULT_MAX_AGE)
        encryptionSecret == getDerivedEncryptionKey(params.secret)
    IN  EncryptJWT(
            With(With(With(token, "iat", epoch(t1)),
                      "exp", now(t2) + maxAge), "jti", uuid),
            encryptionSecret)

\* jose's jwtDecrypt(token, key, { clockTolerance }) at clock ms: the token
\* must be a JWE under this key (A256GCM authenticates), and its exp claim,
\* when present, must lie after now - clockTolerance.
jwtDecrypt(token, key, clockTolerance, ms) ==
    IF ~IsJWE(token) THEN Throw("JWEInvalid")
    ELSE IF token[1].key # key THEN Throw("JWEDecryptionFailed")
    ELSE IF "exp" \in DOMAIN token[1].payload
            /\ token[1].payload.exp <= epoch(ms) - clockTolerance
         THEN Throw("JWTExpired")
    ELSE Return(token[1].payload)

\* decode(params) at clock ms.
decode(params, ms) ==
    LET token == Default(params, "token", <<>>)
    IN  IF token = <<>> THEN Return(Null)
        ELSE jwtDecrypt(token, getDerivedEncryptionKey(params.secret),
                        ClockTolerance, ms)

---------------------------------------------------------------------------
(* Strings *)

SP == Txt(" ")
PCT == Txt("%")

\* String.prototype.startsWith
StartsWith(str, prefix) ==
    Len(str) >= Len(prefix) /\ SubSeq(str, 1, Len(prefix)) = prefix

\* str.split(" ") from position i on: cur is the word being read, acc the
\* words read.
RECURSIVE SplitFrom(_, _, _, _)
SplitFrom(str, i, cur, acc) ==
    IF i > Len(str) THEN Append(acc, cur)
    ELSE IF str[i] = SP THEN SplitFrom(str, i + 1, <<>>, Append(acc, cur))
    ELSE SplitFrom(str, i + 1, Append(cur, str[i]), acc)

\* str.split(" "): the words between the spaces, "" between two spaces.
Split(str) == SplitFrom(str, 1, <<>>, <<>>)

\* String(v) of an optional string: "undefined" when v is undefined.
StringOf(v) == IF v = <<>> THEN <<Txt("undefined")>> ELSE v[1]

HexDigits ==
    {"0", "1", "2", "3", "4", "5", "6", "7", "8", "9",
     "a", "b", "c", "d", "e", "f", "A", "B", "C", "D", "E", "F"}

IsHex(frag) == "txt" \in DOMAIN frag /\ frag.txt \in HexDigits

\* The character %h1h2 stands for (the strings of the model hold escapes
\* below %80 only, each a character of its own).
Chr(h1, h2) == [code |-> <<h1.txt, h2.txt>>]

\* decodeURIComponent from position i on: "%" must be followed by two
\* hexadecimal digits; any other fragment stands for itself.
RECURSIVE DecodeFrom(_, _, _)
DecodeFrom(str, i, acc) ==
    IF i > Len(str) THEN [ok |-> TRUE, str |-> acc]
    ELSE IF str[i] = PCT
         THEN IF i + 2 <= Len(str) /\ IsHex(str[i + 1]) /\ IsHex(str[i + 2])
              THEN DecodeFrom(str, i + 3,
                              Append(acc, Chr(str[i + 1], str[i + 2])))
              ELSE [ok |-> FALSE, str |-> <<>>]
    ELSE DecodeFrom(str, i + 1, Append(acc, str[i]))

\* decodeURIComponent(str): ok is FALSE when it throws URIError.
decodeURIComponent(str) == DecodeFrom(str, 1, <<>>)

---------------------------------------------------------------------------
(* getToken, packages/core/src/jwt.ts *)

SecureCookieName == "__Secure-next-auth.session-token"
PlainCookieName == "next-auth.session-token"

\* !!v of an optional string.
Truthy(v) == v # <<>> /\ v[1] # <<>>

\* process.env.NEXTAUTH_URL?.startsWith("https://") ?? !!process.env.VERCEL
secureCookieDefault(e) ==
    LET url == Opt(e, "NEXTAUTH_URL")
    IN  IF url # <<>> THEN StartsWith(url[1], <<Txt("https://")>>)
        ELSE Truthy(Opt(e, "VERCEL"))

\* The secureCookie and the cookieName of a call, by the defaults of the
\* destructuring.
secureCookieOf(params, e) ==
    IF "secureCookie" \in DOMAIN params THEN params.secureCookie
    ELSE secureCookieDefault(e)

cookieNameOf(params, e) ==
    IF "cookieName" \in DOMAIN params THEN params.cookieName
    ELSE IF secureCookieOf(params, e) THEN SecureCookieName
         ELSE PlainCookieName

secretOfEnvFirst(params, e) ==
    OrElse(Opt(e, "AUTH_SECRET"), Opt(params, "secret"))

\* secret = process.env.AUTH_SECRET
secretOf(params, e) == OrElse(Opt(params, "secret"), Opt(e, "AUTH_SECRET"))

\* new SessionStore({ name }, { cookies }).value: the value of the session
\* cookie of that name, "" when the request has none.
SessionStoreValue(cookies, name) ==
    IF name \in DOMAIN cookies THEN cookies[name] ELSE <<>>

\* A decode option of the caller: a function that returns a payload, one
\* that returns null and one that throws; "default" is decode itself.
CallDecode(_decode, token, secret, ms) ==
    CASE _decode = "default" -> decode([token |-> token, secret |-> secret], ms)
      [] _decode = "customPayload" -> Return([sub |-> 9])
      [] _decode = "customNull" -> Return(Null)
      [] _decode = "customThrows" -> Throw("CustomDecodeError")

\* The token getToken settles on, from the cookie value and the header:
\* ok is FALSE when decodeURIComponent throws.
tokenOf(sessionValue, authorizationHeader) ==
    LET words == IF authorizationHeader = <<>> THEN <<>>
                 ELSE Split(authorizationHeader[1])
        urlEncodedToken == IF Len(words) >= 2 THEN <<words[2]>> ELSE <<>>
    IN  IF sessionValue = <<>> /\ authorizationHeader # <<>>
           /\ words[1] = <<Txt("Bearer")>>
        THEN decodeURIComponent(StringOf(urlEncodedToken))
        ELSE [ok |-> TRUE, str |-> sessionValue]

\* What getToken does with a token: null without one, the token itself when
\* raw, and else what _decode returns, null when it throws.
resultOfDecodesFirst(token, raw, _decode, secret, ms) ==
    LET out == CallDecode(_decode, token, secret, ms)
        call == [token |-> token, secret |-> secret, outcome |-> out]
    IN  IF token = <<>>
        THEN [decodeCalls |-> <<>>, outcome |-> Return(Null)]
        ELSE IF out.kind = "throw"
        THEN [decodeCalls |-> <<call>>, outcome |-> Return(Null)]
        ELSE IF raw
        THEN [decodeCalls |-> <<call>>,
              outcome |-> [kind |-> "return", raw |-> token]]
        ELSE [decodeCalls |-> <<call>>, outcome |-> out]

resultOf(token, raw, _decode, secret, ms) ==
    LET out == CallDecode(_decode, token, secret, ms)
        call == [token |-> token, secret |-> secret, outcome |-> out]
    IN  IF token = <<>>
        THEN [decodeCalls |-> <<>>, outcome |-> Return(Null)]
        ELSE IF raw
        THEN [decodeCalls |-> <<>>,
              outcome |-> [kind |-> "return", raw |-> token]]
        ELSE IF out.kind = "throw"
        THEN [decodeCalls |-> <<call>>, outcome |-> Return(Null)]
        ELSE [decodeCalls |-> <<call>>, outcome |-> out]

\* getToken(params) under process.env = e at clock ms: the outcome, with the
\* locals of the call: the cookie name, whether the request's cookies and
\* headers were read, the token (<<>> when none was settled on) and the
\* calls of _decode.
getToken(params, e, ms) ==
    LET secureCookie == secureCookieOf(params, e)
        cookieName == cookieNameOf(params, e)
        raw == "raw" \in DOMAIN params /\ params.raw
        _decode == Default(params, "decode", "default")
        secret == secretOf(params, e)
        early == [secureCookie |-> secureCookie, cookieName |-> cookieName,
                  read |-> FALSE, token |-> <<>>, decodeCalls |-> <<>>]
    IN  IF "req" \notin DOMAIN params
        THEN With(early, "outcome", Throw("Error"))
        ELSE IF secret = <<>> \/ secret[1] = ""
        THEN With(early, "outcome", Throw("MissingSecret"))
        ELSE
            LET token == tokenOf(
                    SessionStoreValue(params.req.cookies, cookieName),
                    Opt(params.req.headers, "authorization"))
                res == resultOf(token.str, raw, _decode, secret[1], ms)
            IN  IF ~token.ok
                THEN [secureCookie |-> secureCookie,
                      cookieName |-> cookieName, read |-> TRUE,
                      token |-> <<>>, decodeCalls |-> <<>>,
                      outcome |-> Throw("URIError")]
                ELSE [secureCookie |-> secureCookie,
                      cookieName |-> cookieName, read |-> TRUE,
                      token |-> <<token.str>>,
                      decodeCalls |-> res.decodeCalls,
                      outcome |-> res.outcome]

---------------------------------------------------------------------------
(* The JWT state machine: calls of encode and decode as the clock runs *)

NoCall == [call |-> "none"]

\* The parameter objects of encode: token and maxAge are optional.
EncodeParams ==
    LET withSecret == {[secret |-> s] : s \in Secrets}
        withToken == withSecret \cup
            {With(p, "token", t) : p \in withSecret, t \in Payloads}
    IN  withToken \cup
            {With(p, "maxAge", m) : p \in withToken, m \in MaxAges}

\* The parts of the state a specification leaves alone.
JwtIdle == nowMs = 0 /\ issued = NoCall /\ decoded = NoCall
TokenIdle == env = <<>> /\ tokCall = NoCall /\ tokRes = NoCall
ClientIdle ==
    /\ clientCall = NoCall
    /\ pc = "idle"
    /\ requests = <<>>
    /\ csrfRes = <<>>
    /\ href = <<>>
    /\ reloaded = FALSE
    /\ clientOut = NoCall

EmptyDb == [users |-> {}, accounts |-> {}, sessions |-> {}]
AdapterIdle == db = EmptyDb /\ adapterOp = NoCall /\ inFlight = <<>>

JwtInit ==
    /\ JwtIdle
    /\ TokenIdle
    /\ ClientIdle
    /\ AdapterIdle

Tick ==
    \E d \in ClockSteps :
        /\ nowMs + d <= MaxClockSec * 1000
        /\ nowMs' = nowMs + d
        /\ decoded' = NoCall
        /\ UNCHANGED <<issued, tokVars, clientVars, adapterVars>>

Encode ==
    \E params \in EncodeParams, gap \in ReadGaps, uuid \in UUIDs :
        /\ nowMs + gap <= IssueWindowSec * 1000
        /\ issued' = [call |-> "encode", params |-> params,
                      t1 |-> nowMs, t2 |-> nowMs + gap,
                      jwt |-> encode(params, nowMs, nowMs + gap, uuid)]
        /\ nowMs' = nowMs + gap
        /\ decoded' = NoCall
        /\ UNCHANGED <<tokVars, clientVars, adapterVars>>

\* Strings that no call of encode returned.
Garbage == {<<>>, <<Txt("t")>>}

Decode ==
    /\ issued # NoCall
    /\ \E secret \in Secrets, token \in {issued.jwt} \cup Garbage :
        /\ decoded' = [call |-> "decode", token |-> token, secret |-> secret,
                       at |-> nowMs,
                       outcome |-> decode([token |-> token, secret |-> secret],
                                          nowMs)]
        /\ UNCHANGED <<nowMs, issued, tokVars, clientVars, adapterVars>>

JwtNext == Tick \/ Encode \/ Decode

SpecJwt == JwtInit /\ [][JwtNext]_vars

---------------------------------------------------------------------------
(* The getToken state machine: calls of getToken under a process.env *)

\* The clock of the getToken calls, in seconds.
TokenClockSec == 20

\* A token issued for secret "s1" that is live at TokenClockSec, and one
\* that has expired by then.
LiveJwt == encode([token |-> [sub |-> 1], secret |-> "s1"], 0, 0, 7)
ExpiredJwt ==
    encode([token |-> [sub |-> 1], secret |-> "s1", maxAge |-> 1], 0, 0, 7)

Envs ==
    LET urls == {<<>>, <<<<Txt("http://"), Txt("localhost")>>>>,
                 <<<<Txt("https://"), Txt("example.com")>>>>}
        vercels == {<<>>, <<<<>>>>, <<<<Txt("1")>>>>}
        secrets == {<<>>, <<"">>, <<"s1">>}
        put(obj, k, v) == IF v = <<>> THEN obj ELSE With(obj, k, v[1])
    IN  {put(put(put(<<>>, "NEXTAUTH_URL", u), "VERCEL", v), "AUTH_SECRET", a) :
            u \in urls, v \in vercels, a \in secrets}

CookieNames == {PlainCookieName, SecureCookieName, "custom"}
CookieValues == {<<>>, <<Txt("t")>>, LiveJwt, ExpiredJwt}
\* The cookies of a request: none, or one cookie.
CookieJars ==
    {<<>>} \cup {[n \in {name} |-> v] : name \in CookieNames, v \in CookieValues}

\* What may follow "Bearer " in a header, URL-encoded.
BearerWords ==
    {<<>>, <<Txt("t")>>, <<PCT, Txt("4"), Txt("1")>>, <<PCT>>,
     <<Txt("t"), PCT, Txt("4")>>, LiveJwt}
AuthorizationHeaders ==
    LET bearer == <<Txt("Bearer")>>
    IN  {<<>>, bearer, <<SP>> \o bearer \o <<SP, Txt("t")>>,
         <<Txt("Basic")>>, <<Txt("Basic"), SP, Txt("t")>>,
         <<Txt("bearer"), SP, Txt("t")>>, <<Txt("Bearer"), Txt("t")>>}
        \cup {bearer \o <<SP>> \o w : w \in BearerWords}
        \cup {bearer \o <<SP>> \o w \o <<SP, Txt("u")>> :
                w \in {<<Txt("t")>>, <<>>}}
HeaderBags ==
    {<<>>} \cup {[authorization |-> h] : h \in AuthorizationHeaders}

Requests == {[cookies |-> c, headers |-> h] : c \in CookieJars, h \in HeaderBags}

\* Objects with each of the optional keys of opts absent or set to one of
\* its values.
RECURSIVE Options(_, _)
Options(base, opts) ==
    IF opts = <<>> THEN base
    ELSE LET k == opts[1][1]
             vals == opts[1][2]
         IN  Options(base \cup {With(p, k, v) : p \in base, v \in vals},
                     Tail(opts))

\* The calls of getToken: every request with every raw, decode and secret;
\* the cookie options with every cookie; and the secrets with and without a
\* request.
GetTokenParams ==
    LET locate == Options({[req |-> r, secret |-> s] :
                                r \in Requests, s \in {"s1", "s2"}},
                          << <<"raw", {TRUE}>>,
                             <<"decode", {"customPayload", "customNull",
                                          "customThrows"}>> >>)
        named == Options({[req |-> [cookies |-> c, headers |-> <<>>],
                           secret |-> "s1", raw |-> TRUE] : c \in CookieJars},
                         << <<"secureCookie", BOOLEAN>>,
                            <<"cookieName", {"custom"}>> >>)
        secrets == Options({<<>>} \cup {[req |-> r] : r \in
                                {[cookies |-> c, headers |-> <<>>] :
                                    c \in {<<>>, [custom |-> <<Txt("t")>>]}}},
                           << <<"secret", {"", "s1"}>>,
                              <<"raw", {FALSE}>>,
                              <<"cookieName", {"custom"}>> >>)
    IN  locate \cup named \cup secrets

\* A call of getToken is pending with its parameters drawn.
TokenInit ==
    /\ nowMs = TokenClockSec * 1000
    /\ issued = NoCall
    /\ decoded = NoCall
    /\ env \in Envs
    /\ tokCall \in GetTokenParams
    /\ tokRes = NoCall
    /\ ClientIdle
    /\ AdapterIdle

GetToken ==
    /\ tokRes = NoCall
    /\ tokRes' = getToken(tokCall, env, nowMs)
    /\ UNCHANGED <<jwtVars, env, tokCall, clientVars, adapterVars>>

TokenNext == GetToken

SpecToken == TokenInit /\ [][TokenNext]_vars

---------------------------------------------------------------------------
(* The SvelteKit client: signIn and signOut *)

\* `${v}` of an optional string: "undefined" when v is undefined.
Interpolate(v) == IF v = <<>> THEN "undefined" ELSE v[1]

\* new URLSearchParams(obj): every value as a string.
URLSearchParams(obj) ==
    [k \in DOMAIN obj |->
        IF k = "redirect" THEN (IF obj[k] THEN "true" ELSE "false")
        ELSE obj[k]]

\* The path `${basePath}/auth/csrf`, as its segments.
csrfUrl(basePath) == [path |-> <<basePath, "auth", "csrf">>]

\* _signInUrl: `${basePath}/auth/${isCredentials ? "callback" : "signin"}/
\* ${providerId}?${new URLSearchParams(authorizationParams)}`
signInUrl(basePath, providerId, authorizationParams) ==
    LET isCredentials == providerId = <<"credentials">>
    IN  [path |-> <<basePath, "auth",
                    IF isCredentials THEN "callback" ELSE "signin",
                    Interpolate(providerId)>>,
         query |-> URLSearchParams(authorizationParams)]

signOutUrl(basePath) == [path |-> <<basePath, "auth", "signout">>]

\* callbackUrl = window.location.href, of the options of either function.
callbackUrlOf(options, location) == Default(options, "callbackUrl", location)

signInBodyOptionsLast(options, csrfToken, location) ==
    LET base == [csrfToken |-> csrfToken,
                 callbackUrl |-> callbackUrlOf(options, location)]
    IN  URLSearchParams([k \in DOMAIN base \cup DOMAIN options |->
            IF k \in DOMAIN options THEN options[k] ELSE base[k]])

\* The body of signIn's POST: { ...options, csrfToken, callbackUrl }.
signInBody(options, csrfToken, location) ==
    URLSearchParams(
        With(With(options, "csrfToken", csrfToken),
             "callbackUrl", callbackUrlOf(options, location)))

\* The body of signOut's POST: { csrfToken, callbackUrl }.
signOutBody(options, csrfToken, location) ==
    URLSearchParams([csrfToken |-> csrfToken,
                     callbackUrl |-> callbackUrlOf(options, location)])

PostHeaders ==
    [ContentType |-> "application/x-www-form-urlencoded",
     XAuthReturnRedirect |-> "1"]

\* The POST either function sends once it has the CSRF token.
postOf(call, csrfToken, location) ==
    IF call.fn = "signIn"
    THEN [method |-> "post",
          url |-> signInUrl(call.base, call.providerId,
                            call.authorizationParams),
          headers |-> PostHeaders,
          body |-> signInBody(call.options, csrfToken, location)]
    ELSE [method |-> "post", url |-> signOutUrl(call.base),
          headers |-> PostHeaders,
          body |-> signOutBody(call.options, csrfToken, location)]

---------------------------------------------------------------------------
(* The client state machine: one call of signIn or signOut, and the answers
   of the network *)

ProviderIds == {<<>>, <<"credentials">>, <<"email">>, <<"github">>}
BasePaths == {"", "/app"}
Location == <<"/here">>

\* options ?? {}: any of callbackUrl, redirect and a csrfToken of the caller.
SignInOptions ==
    Options({<<>>}, << <<"callbackUrl", {<<"/cb">>}>>,
                       <<"redirect", BOOLEAN>>,
                       <<"csrfToken", {"own"}>> >>)
SignOutOptions == Options({<<>>}, << <<"callbackUrl", {<<"/cb">>}>> >>)
AuthorizationParams == {<<>>, [prompt |-> "login"]}

ClientCalls ==
    {[fn |-> "signIn", base |-> b, providerId |-> p, options |-> o,
      authorizationParams |-> a] :
        b \in BasePaths, p \in ProviderIds, o \in SignInOptions,
        a \in AuthorizationParams}
    \cup {[fn |-> "signOut", base |-> b, options |-> o] :
            b \in BasePaths, o \in SignOutOptions}

\* The CSRF tokens the server hands out.
CsrfTokens == {"c1", "c2"}
\* The JSON the server answers a POST with: a url, or none.  A URL is the
\* sequence of its parts, "#" among them when it has a hash.
PostData == {<<>>, [url |-> <<"/next">>], [url |-> <<"/next", "#", "top">>]}

ClientInit ==
    /\ JwtIdle
    /\ TokenIdle
    /\ AdapterIdle
    /\ clientCall \in ClientCalls
    /\ pc = "start"
    /\ requests = <<>>
    /\ csrfRes = <<>>
    /\ href = Location
    /\ reloaded = FALSE
    /\ clientOut = NoCall

\* The call runs to its first await: fetch(`${basePath}/auth/csrf`).
FetchCsrf ==
    /\ pc = "start"
    /\ requests' = Append(requests,
                          [method |-> "get", url |-> csrfUrl(clientCall.base)])
    /\ pc' = "csrf"
    /\ UNCHANGED <<jwtVars, tokVars, adapterVars, clientCall, csrfRes, href, reloaded,
                   clientOut>>

\* The CSRF response arrives with its JSON; the call goes on to send the POST.
CsrfResponds ==
    /\ pc = "csrf"
    /\ \E token \in CsrfTokens :
        /\ csrfRes' = <<[csrfToken |-> token]>>
        /\ requests' = Append(requests, postOf(clientCall, token, href))
    /\ pc' = "post"
    /\ UNCHANGED <<jwtVars, tokVars, adapterVars, clientCall, href, reloaded, clientOut>>

\* fetch rejects (the network fails) or the body is not JSON: the call throws.
FetchFails ==
    /\ pc \in {"csrf", "post"}
    /\ pc' = "failed"
    /\ clientOut' = Throw("TypeError")
    /\ UNCHANGED <<jwtVars, tokVars, adapterVars, clientCall, requests, csrfRes, href,
                   reloaded>>

HasHash(url) == \E i \in 1..Len(url) : url[i] = "#"

\* The POST's response arrives with its JSON: the call redirects, or returns
\* the response.
PostResponds ==
    /\ pc = "post"
    /\ \E data \in PostData :
        LET dataUrl == Opt(data, "url")
            callbackUrl == callbackUrlOf(clientCall.options, href)
            target == IF dataUrl # <<>> THEN dataUrl[1] ELSE callbackUrl
            redirect == Default(clientCall.options, "redirect", TRUE)
            isSupportingReturn ==
                clientCall.providerId \in {<<"credentials">>, <<"email">>}
        IN  IF clientCall.fn = "signIn" /\ ~redirect /\ isSupportingReturn
            THEN /\ clientOut' = [kind |-> "return", res |-> data]
                 /\ UNCHANGED <<href, reloaded>>
            ELSE /\ href' = target
                 /\ reloaded' =
                        IF clientCall.fn = "signIn"
                        THEN dataUrl # <<>> /\ HasHash(dataUrl[1])
                        ELSE HasHash(target)
                 /\ clientOut' =
                        IF clientCall.fn = "signIn" /\ dataUrl = <<>>
                        THEN Throw("TypeError")
                        ELSE [kind |-> "return"]
    /\ pc' = "done"
    /\ UNCHANGED <<jwtVars, tokVars, adapterVars, clientCall, requests, csrfRes>>

ClientNext == FetchCsrf \/ CsrfResponds \/ FetchFails \/ PostResponds

SpecClient == ClientInit /\ [][ClientNext]_vars

---------------------------------------------------------------------------
(* The MikroORM adapter.  A method is a function of the database and its
   argument to the database after it and its outcome. *)

\* em.findOne(UserModel, { id }): the user as a 0- or 1-element set.
findUser(d, id) == {u \in d.users : u.id = id}
\* em.findOne(AccountModel, { provider, providerAccountId })
findAccount(d, key) ==
    {a \in d.accounts : a.provider = key.provider
                        /\ a.providerAccountId = key.providerAccountId}
\* em.findOne(SessionModel, { sessionToken })
findSession(d, sessionToken) ==
    {x \in d.sessions : x.sessionToken = sessionToken}

TheOne(set) == CHOOSE x \in set : TRUE

\* createUser(data) with the id the new UserModel drew; email is @Unique.
createUser(d, data, id) ==
    IF \E u \in d.users : u.email = data.email
    THEN [db |-> d, outcome |-> Throw("UniqueConstraintViolationException")]
    ELSE LET user == With(data, "id", id)
         IN  [db |-> [d EXCEPT !.users = @ \cup {user}],
              outcome |-> Return(user)]

updateUser(d, data) ==
    LET found == findUser(d, data.id)
    IN  IF found = {}
        THEN [db |-> d, outcome |-> Throw("User not found")]
        ELSE LET user == [k \in DOMAIN TheOne(found) |->
                            IF k \in DOMAIN data THEN data[k]
                            ELSE TheOne(found)[k]]
             IN  [db |-> [d EXCEPT !.users = (@ \ found) \cup {user}],
                  outcome |-> Return(user)]

\* deleteUser(id): removing the user removes its sessions and accounts
\* (orphanRemoval, Cascade.ALL).
deleteUser(d, id) ==
    LET found == findUser(d, id)
    IN  IF found = {}
        THEN [db |-> d, outcome |-> Return(Null)]
        ELSE [db |-> [users |-> d.users \ found,
                      accounts |-> {a \in d.accounts : a.userId # id},
                      sessions |-> {x \in d.sessions : x.userId # id}],
              outcome |-> Return(TheOne(found))]

\* getUser(id)
getUser(d, id) ==
    LET found == findUser(d, id)
    IN  IF found = {}
        THEN [db |-> d, outcome |-> Return(Null)]
        ELSE [db |-> d, outcome |-> Return(TheOne(found))]

\* em.findOne(UserModel, { email })
findUserByEmail(d, email) == {u \in d.users : u.email = email}

\* getUserByEmail(email)
getUserByEmail(d, email) ==
    LET found == findUserByEmail(d, email)
    IN  IF found = {}
        THEN [db |-> d, outcome |-> Return(Null)]
        ELSE [db |-> d, outcome |-> Return(TheOne(found))]

\* wrap(user).toObject() for what em.findOne gave: wrap(null) is null, and
\* null has no method toObject.
toObject(found) ==
    IF found = {} THEN Throw("TypeError") ELSE Return(TheOne(found))

\* getUserByAccount, from the answer of its second query on: account is
\* the account its first query found, d the database the second query reads.
getUserByAccountUser(d, account) ==
    [db |-> d, outcome |-> toObject(findUser(d, account.userId))]

\* getSessionAndUser(sessionToken): one query, the session with its user
\* populated; session.user is null when the user's row is gone.
getSessionAndUser(d, sessionToken) ==
    LET session == findSession(d, sessionToken)
        user == IF session = {} THEN {}
                ELSE findUser(d, TheOne(session).userId)
    IN  IF session = {} \/ user = {}
        THEN [db |-> d, outcome |-> Return(Null)]
        ELSE [db |-> d,
              outcome |-> Return([user |-> TheOne(user),
                                  session |-> TheOne(session)])]

linkAccountUnchecked(d, data) ==
    [db |-> [d EXCEPT !.accounts = @ \cup {data}], outcome |-> Return(data)]

linkAccount(d, data) ==
    IF findUser(d, data.userId) = {}
    THEN [db |-> d, outcome |-> Throw("User not found")]
    ELSE [db |-> [d EXCEPT !.accounts = @ \cup {data}],
          outcome |-> Return(data)]

unlinkAccount(d, key) ==
    LET found == findAccount(d, key)
    IN  IF found = {}
        THEN [db |-> d, outcome |-> Throw("Account not found")]
        ELSE [db |-> [d EXCEPT !.accounts = @ \ found],
              outcome |-> Return(TheOne(found))]

createSession(d, data) ==
    IF findUser(d, data.userId) = {}
    THEN [db |-> d, outcome |-> Throw("User not found")]
    ELSE [db |-> [d EXCEPT !.sessions = @ \cup {data}],
          outcome |-> Return(data)]

deleteSession(d, sessionToken) ==
    LET found == findSession(d, sessionToken)
    IN  IF found = {}
        THEN [db |-> d, outcome |-> Return(Null)]
        ELSE [db |-> [d EXCEPT !.sessions = @ \ found],
              outcome |-> Return(TheOne(found))]

---------------------------------------------------------------------------
(* The adapter state machine: calls of the adapter's methods.  A method of
   one query, or of a query and a flush, takes one step; getUserByAccount,
   of two queries, takes two, and other calls may come between them. *)

UserIds == {1, 2}
Emails == {"a@x", "b@x"}
Names == {"n1", "n2"}
SessionTokens == {"t1", "t2"}
AccountKeys ==
    {[provider |-> "github", providerAccountId |-> a] : a \in {"a1", "a2"}}

AdapterInit ==
    /\ JwtIdle
    /\ TokenIdle
    /\ ClientIdle
    /\ db = EmptyDb
    /\ adapterOp = NoCall
    /\ inFlight = <<>>

\* A method was called with data and came back with res.
Calls(op, data, res) ==
    /\ db' = res.db
    /\ adapterOp' = [op |-> op, data |-> data, before |-> db,
                     outcome |-> res.outcome]
    /\ UNCHANGED <<jwtVars, tokVars, clientVars, inFlight>>

\* The new user's id is a fresh one (randomUUID).
CreateUser ==
    \E email \in Emails, name \in Names,
       id \in UserIds \ {u.id : u \in db.users} :
        Calls("createUser", [email |-> email, name |-> name],
              createUser(db, [email |-> email, name |-> name], id))

UpdateUser ==
    \E id \in UserIds, name \in Names :
        Calls("updateUser", [id |-> id, name |-> name],
              updateUser(db, [id |-> id, name |-> name]))

DeleteUser ==
    \E id \in UserIds : Calls("deleteUser", [id |-> id], deleteUser(db, id))

\* Auth.js links an account it has not found by getUserByAccount.
LinkAccount ==
    \E key \in AccountKeys, userId \in UserIds :
        /\ findAccount(db, key) = {}
        /\ Calls("linkAccount", With(key, "userId", userId),
                 linkAccount(db, With(key, "userId", userId)))

UnlinkAccount ==
    \E key \in AccountKeys :
        Calls("unlinkAccount", key, unlinkAccount(db, key))

\* Auth.js creates a session under a session token it has just drawn.
CreateSession ==
    \E sessionToken \in SessionTokens, userId \in UserIds :
        /\ findSession(db, sessionToken) = {}
        /\ Calls("createSession",
                 [sessionToken |-> sessionToken, userId |-> userId],
                 createSession(db, [sessionToken |-> sessionToken,
                                    userId |-> userId]))

DeleteSession ==
    \E sessionToken \in SessionTokens :
        Calls("deleteSession", [sessionToken |-> sessionToken],
              deleteSession(db, sessionToken))

GetUser ==
    \E id \in UserIds : Calls("getUser", [id |-> id], getUser(db, id))

GetUserByEmail ==
    \E email \in Emails :
        Calls("getUserByEmail", [email |-> email], getUserByEmail(db, email))

GetSessionAndUser ==
    \E sessionToken \in SessionTokens :
        Calls("getSessionAndUser", [sessionToken |-> sessionToken],
              getSessionAndUser(db, sessionToken))

\* getUserByAccount up to the answer of its first query: it returns null
\* when there is no such account, and otherwise awaits its second query.
\* One call is followed at a time.
GetUserByAccount ==
    \E key \in AccountKeys :
        /\ inFlight = <<>>
        /\ IF findAccount(db, key) = {}
           THEN /\ db' = db
                /\ adapterOp' = [op |-> "getUserByAccount", data |-> key,
                                 before |-> db, account |-> <<>>,
                                 outcome |-> Return(Null)]
                /\ inFlight' = <<>>
           ELSE /\ inFlight' = <<[data |-> key,
                                  account |-> TheOne(findAccount(db, key))]>>
                /\ UNCHANGED <<db, adapterOp>>
        /\ UNCHANGED <<jwtVars, tokVars, clientVars>>

\* The second query of the call in flight answers, from the database as it
\* is by now, and the call comes back.
GetUserByAccountUser ==
    /\ inFlight # <<>>
    /\ db' = getUserByAccountUser(db, inFlight[1].account).db
    /\ adapterOp' = [op |-> "getUserByAccount", data |-> inFlight[1].data,
                     before |-> db, account |-> <<inFlight[1].account>>,
                     outcome |->
                        getUserByAccountUser(db, inFlight[1].account).outcome]
    /\ inFlight' = <<>>
    /\ UNCHANGED <<jwtVars, tokVars, clientVars>>

AdapterNext ==
    \/ CreateUser
    \/ UpdateUser
    \/ DeleteUser
    \/ LinkAccount
    \/ UnlinkAccount
    \/ CreateSession
    \/ DeleteSession
    \/ GetUser
    \/ GetUserByEmail
    \/ GetSessionAndUser
    \/ GetUserByAccount
    \/ GetUserByAccountUser

SpecAdapter == AdapterInit /\ [][AdapterNext]_vars

---------------------------------------------------------------------------
(* Claims about encode and decode, checked under SpecJwt *)

IssuedPayload == issued.jwt[1].payload
IssuedMaxAge == Default(issued.params, "maxAge", DEFAULT_MAX_AGE)
IssuedToken == Default(issued.params, "token", <<>>)

\* C5, as stated: every JWT issued by encode has exp - iat = maxAge, where
\* maxAge is 30 days when the caller passes none.
C5_ExpMinusIatIsMaxAge ==
    issued # NoCall => IssuedPayload.exp - IssuedPayload.iat = IssuedMaxAge

\* C5, amended: exp is the whole-second clock read by now() plus maxAge (30
\* days when none is passed), iat is the whole second of the earlier clock
\* read of setIssuedAt(), and exp - iat = maxAge whenever the two reads fall
\* in the same second.
C5_ExpIsNowPlusMaxAge ==
    issued # NoCall =>
        /\ IssuedPayload.exp = now(issued.t2) + IssuedMaxAge
        /\ IssuedPayload.iat = epoch(issued.t1)
        /\ ("maxAge" \notin DOMAIN issued.params
                => IssuedMaxAge = 30 * 24 * 60 * 60)
        /\ (now(issued.t2) = epoch(issued.t1)
                => IssuedPayload.exp - IssuedPayload.iat = IssuedMaxAge)

\* A token issued with a caller's maxAge while the clock crossed a second.
C5_Witness ==
    /\ issued # NoCall
    /\ "maxAge" \in DOMAIN issued.params
    /\ now(issued.t2) # epoch(issued.t1)

DecodedIssued == decoded # NoCall /\ decoded.token = issued.jwt

BeforeExpiry == epoch(decoded.at) < IssuedPayload.exp

---------------------------------------------------------------------------
(* Claims about getToken, checked under SpecToken *)

\* getToken was called, and it got past the checks of req and secret.
Called == tokRes # NoCall
Ran == Called /\ tokRes.read

ReqCookie == SessionStoreValue(tokCall.req.cookies, tokRes.cookieName)
ReqHeader == Opt(tokCall.req.headers, "authorization")
ReqWords == IF ReqHeader = <<>> THEN <<>> ELSE Split(ReqHeader[1])
IsBearer == ReqHeader # <<>> /\ ReqWords[1] = <<Txt("Bearer")>>
\* The second space-separated word of the header, "" when it has none.
SecondWord == IF Len(ReqWords) >= 2 THEN ReqWords[2] ELSE <<>>
RawSet == "raw" \in DOMAIN tokCall /\ tokCall.raw
ReturnsNull == tokRes.outcome = Return(Null)

\* C1: a non-empty session cookie is the token used; with an empty cookie
\* and a header whose first word is exactly "Bearer", the token is the
\* URL-decoded second word (where that word can be URL-decoded); in every
\* other case getToken returns null.
C1_CookieThenBearer ==
    Ran =>
        /\ (ReqCookie # <<>> => tokRes.token = <<ReqCookie>>)
        /\ (ReqCookie = <<>> /\ IsBearer /\ decodeURIComponent(SecondWord).ok
                => tokRes.token = <<decodeURIComponent(SecondWord).str>>)
        /\ (ReqCookie = <<>> /\ ~IsBearer => ReturnsNull)

\* C2: with raw set and a token found, getToken returns that token and never
\* calls decode; with raw false or unset it calls decode once, with the
\* token, and returns what decode returned.
C2_RawSkipsDecode ==
    Ran /\ tokRes.token # <<>> /\ tokRes.token # <<<<>>>> =>
        /\ (RawSet =>
                /\ tokRes.outcome = [kind |-> "return", raw |-> tokRes.token[1]]
                /\ tokRes.decodeCalls = <<>>)
        /\ (~RawSet =>
                /\ Len(tokRes.decodeCalls) = 1
                /\ tokRes.decodeCalls[1].token = tokRes.token[1]
                /\ tokRes.decodeCalls[1].outcome =
                        CallDecode(Default(tokCall, "decode", "default"),
                                   tokRes.token[1],
                                   tokRes.decodeCalls[1].secret, nowMs)
                /\ (tokRes.decodeCalls[1].outcome.kind = "return" =>
                        tokRes.outcome = tokRes.decodeCalls[1].outcome))

\* A raw call with a custom decode that found its token in a Bearer header.
C2_Witness ==
    /\ Ran
    /\ RawSet
    /\ "decode" \in DOMAIN tokCall
    /\ ReqCookie = <<>>
    /\ IsBearer
    /\ tokRes.outcome = [kind |-> "return", raw |-> <<Txt("t")>>]

\* C3: with neither secureCookie nor cookieName passed, the cookie name is
\* the secure-prefixed one, unless NEXTAUTH_URL is an http:// URL or is not
\* set, and then it is the unprefixed one, whatever VERCEL is.
C3_SecurePrefixUnlessHttpOrUnset ==
    Ran /\ "secureCookie" \notin DOMAIN tokCall
           /\ "cookieName" \notin DOMAIN tokCall =>
        tokRes.cookieName =
            IF Opt(env, "NEXTAUTH_URL") = <<>>
               \/ StartsWith(env.NEXTAUTH_URL, <<Txt("http://")>>)
            THEN PlainCookieName
            ELSE SecureCookieName

PassedSecret == Opt(tokCall, "secret")
EnvSecret == Opt(env, "AUTH_SECRET")

\* C4: a missing req throws a plain Error first; else, when neither the
\* passed secret nor AUTH_SECRET is a non-empty secret, getToken throws
\* MissingSecret before the cookie or header is read; and decode gets the
\* passed secret, or AUTH_SECRET when none is passed.
C4_MissingSecretFirst ==
    Called =>
        /\ ("req" \notin DOMAIN tokCall =>
                tokRes.outcome = Throw("Error") /\ ~tokRes.read)
        /\ ("req" \in DOMAIN tokCall
            /\ (PassedSecret = <<>> \/ PassedSecret[1] = "")
            /\ (EnvSecret = <<>> \/ EnvSecret[1] = "") =>
                tokRes.outcome = Throw("MissingSecret") /\ ~tokRes.read)
        /\ (tokRes.decodeCalls # <<>> =>
                tokRes.decodeCalls[1].secret =
                    IF PassedSecret # <<>> THEN PassedSecret[1]
                    ELSE EnvSecret[1])

\* A request that carries no token, with no secret passed and an empty
\* AUTH_SECRET: MissingSecret, not null.
C4_Witness ==
    /\ Called
    /\ "req" \in DOMAIN tokCall
    /\ tokCall.req.cookies = <<>>
    /\ tokCall.req.headers = <<>>
    /\ PassedSecret = <<>>
    /\ EnvSecret = <<"">>
    /\ tokRes.outcome = Throw("MissingSecret")

\* C9: with req and secret present getToken never throws, and for a
\* non-empty token that decode rejects, with raw unset, it returns null.
C9_NeverThrowsOnToken ==
    Called /\ "req" \in DOMAIN tokCall
           /\ secretOf(tokCall, env) # <<>> /\ secretOf(tokCall, env)[1] # "" =>
        /\ tokRes.outcome.kind # "throw"
        /\ (~RawSet /\ tokRes.decodeCalls # <<>>
            /\ tokRes.decodeCalls[1].outcome.kind = "throw" => ReturnsNull)

---------------------------------------------------------------------------
(* Claims about signIn and signOut, checked under SpecClient *)

PostIndexes == {i \in 1..Len(requests) : requests[i].method = "post"}
Ended == pc \in {"done", "failed"}

\* Every POST sent follows the completed GET of <base>/auth/csrf and carries
\* the CSRF token of that response, and the callbackUrl.
PostsCarryCsrf ==
    \A i \in PostIndexes :
        /\ i = 2
        /\ requests[1] = [method |-> "get", url |-> csrfUrl(clientCall.base)]
        /\ csrfRes # <<>>
        /\ requests[i].body.csrfToken = csrfRes[1].csrfToken
        /\ requests[i].body.callbackUrl =
                callbackUrlOf(clientCall.options, Location)

\* C7, as stated: in every execution the CSRF GET completes before the POST
\* is sent, exactly one POST is sent, and its body carries the CSRF token of
\* the response (not a csrfToken of the caller's options) and callbackUrl.
C7_CsrfThenExactlyOnePost ==
    /\ PostsCarryCsrf
    /\ (Ended => Cardinality(PostIndexes) = 1)

\* C7, amended: the CSRF GET completes before any POST is sent, at most one
\* POST is sent, exactly one once the CSRF response has arrived (none when
\* the CSRF fetch fails), and its body carries the CSRF token of the
\* response (not a csrfToken of the caller's options) and callbackUrl.
C7_CsrfThenPost ==
    /\ PostsCarryCsrf
    /\ Cardinality(PostIndexes) <= 1
    /\ (csrfRes # <<>> => Cardinality(PostIndexes) = 1)
    /\ (csrfRes = <<>> => PostIndexes = {})

\* A signIn whose options hold a csrfToken of the caller's, after its POST
\* was answered.
C7_Witness ==
    /\ pc = "done"
    /\ clientCall.fn = "signIn"
    /\ "csrfToken" \in DOMAIN clientCall.options
    /\ requests[2].body.csrfToken = "c2"

\* C8: signIn without a providerId posts to <base>/auth/signin; with one, to
\* <base>/auth/signin/<providerId>, and for "credentials" to
\* <base>/auth/callback/credentials.
C8_SignInPaths ==
    clientCall # NoCall /\ clientCall.fn = "signIn" =>
        \A i \in PostIndexes :
            requests[i].url.path =
                IF clientCall.providerId = <<>>
                THEN <<clientCall.base, "auth", "signin">>
                ELSE IF clientCall.providerId = <<"credentials">>
                THEN <<clientCall.base, "auth", "callback", "credentials">>
                ELSE <<clientCall.base, "auth", "signin",
                       clientCall.providerId[1]>>

---------------------------------------------------------------------------
(* Claims about the adapter, checked under SpecAdapter *)

UserIdsOf(d) == {u.id : u \in d.users}
\* The user id a call of updateUser, linkAccount or createSession refers to.
ReferredId ==
    IF adapterOp.op = "updateUser" THEN adapterOp.data.id
    ELSE adapterOp.data.userId

---------------------------------------------------------------------------
(* Claims about the adapter's lookups, checked under SpecAdapter *)

Op(name) == adapterOp # NoCall /\ adapterOp.op = name
ReturnedNull == adapterOp.outcome = Return(Null)
Threw == adapterOp.outcome.kind = "throw"

\* The account of the key getUserByAccount was called with, as the database
\* held it when the call read it: a sequence of one account, or of none.
AccountWhenCalled == adapterOp.account

\* The outcome is a returned user, and its id is id.
ReturnedUser(id) ==
    /\ adapterOp.outcome.kind = "return"
    /\ "id" \in DOMAIN adapterOp.outcome.value
    /\ adapterOp.outcome.value.id = id

\* C11: the adapter's lookups return null, and never throw, when the record
\* is absent: getUser, getUserByEmail and deleteUser for an unknown user,
\* deleteSession and getSessionAndUser for an unknown sessionToken;
\* getUserByAccount returns the linked user when the account exists and null
\* otherwise, also when the account's user has been deleted.
C11_LookupsReturnNull ==
    /\ Op("getUser") \/ Op("deleteUser") =>
            (adapterOp.data.id \notin UserIdsOf(adapterOp.before)
                => ReturnedNull)
    /\ Op("getUserByEmail") =>
            (findUserByEmail(adapterOp.before, adapterOp.data.email) = {}
                => ReturnedNull)
    /\ Op("deleteSession") \/ Op("getSessionAndUser") =>
            (findSession(adapterOp.before, adapterOp.data.sessionToken) = {}
                => ReturnedNull)
    /\ Op("getUserByAccount") =>
            /\ ~Threw
            /\ IF AccountWhenCalled = <<>> THEN ReturnedNull
               ELSE ReturnedUser(AccountWhenCalled[1].userId)

=============================================================================
